---- MODULE Spec2Model ----
(***************************************************************************)
(* Model of the R.E.A.L-Analyst plan/step execution engine:                *)
(*   - GroupChatManager (the plan executor), BaseAgent.handle_action_      *)
(*     request and HumanAgent.handle_human_feedback        (Spec)          *)
(*   - AgentFactory.create_agent and its class-level cache (SpecFactory)   *)
(*   - WorkflowStateRepository over whole-document replace (SpecRepository)*)
(***************************************************************************)
EXTENDS Integers, Sequences, FiniteSets, TLC

\* ------------------------------------------------------------------------
\* Bounds
\* ------------------------------------------------------------------------
MaxSteps == 3          \* longest plan the planner produces
MaxFeedback == 1       \* number of human feedback submissions considered
NumCallers == 2        \* concurrent callers of AgentFactory.create_agent
MaxCalls == 3          \* create_agent calls considered in all
NumOps == 2            \* concurrent callers of the WorkflowStateRepository
MaxOps == 2            \* repository operations considered in all
MaxClock == 1          \* readings of the clock beyond the initial one
MaxChatCalls == 4      \* calls made on the AgentChatService

\* ------------------------------------------------------------------------
\* Enumerations (data_models/messages_kernel.py)
\* ------------------------------------------------------------------------
PLANNER == "Planner_Agent"
VALUATION == "Valuation_Agent"
HUMAN == "Human_Agent"
\* the role tags a step can carry: one specialist role and the human
AgentType == {VALUATION, HUMAN}

StepStatus == {"planned", "approved", "rejected", "in_progress", "completed", "failed"}
PlanStatus == {"in_progress", "completed", "failed"}

None == "None"
\* no HumanFeedback message in flight
NoFeedback == [step_id |-> 0, approved |-> FALSE]

VARIABLES
    \* --- executor (GroupChatManager + memory store) ---
    steps,            \* the plan's steps in creation order: [agent, status, timestamp, agent_reply]
    planStatus,       \* Plan.status in the memory store
    agent_instances,  \* GroupChatManager._agent_instances: agent types with an instance
    pc,               \* position of the executor coroutine
    cur,              \* the step selected by _find_next_step (0 = none)
    depth,            \* nested, not yet returned activations of _run_execution_loop
    invoked,          \* per step: number of handle_action_request invocations
    notices,          \* kinds of AgentMessage the executor has added to the store
    pendingFeedback,  \* HumanFeedback recorded by HumanAgent, not yet seen by the executor
    fbHandled,        \* HumanFeedback messages the executor has handled
    fbCount,          \* number of feedback submissions so far
    \* --- AgentFactory ---
    agent_cache,      \* AgentFactory._agent_cache: session_id -> (agent type -> instance)
    callPc,           \* per caller: position inside create_agent
    callArgs,         \* per caller: the (agent_type, session_id) of its current call
    callAgent,        \* per caller: the instance its call returned (0 = none)
    factoryCalls,     \* per (session_id, agent type): invocations of agent_class.create
    created,          \* number of agent instances constructed so far
    callCount,        \* number of create_agent calls made so far
    \* --- WorkflowStateRepository ---
    store,            \* the Cosmos container: (tenant_id, plan id) -> Plan document
    clock,            \* datetime.now(timezone.utc)
    opPc,             \* per caller: position inside its repository operation
    opArgs,           \* per caller: the operation and its arguments
    opPlan,           \* per caller: the Plan object it holds in memory / returns
    opErr,            \* per caller: the exception its operation raised
    opCount,          \* number of repository operations started so far
    \* --- PlannerAgent + memory store ---
    plPc,             \* position of handle_input_task
    parsed_result,    \* PlannerResponsePlan.steps: the agent named by each parsed step
    plSteps,          \* the local list steps that handle_input_task returns
    memPlan,          \* the memory store holds the Plan of this call
    memSteps,         \* the Steps of this call in the memory store, in order of arrival
    \* --- AgentChatService ---
    threads,          \* AgentChatService.threads: its names (keys) in insertion order
    current,          \* AgentChatService.current
    chatResult,       \* outcome of the latest call on the service
    chatCalls         \* number of calls made on the service so far

execVars == <<steps, planStatus, agent_instances, pc, cur, depth, invoked,
              notices, pendingFeedback, fbHandled, fbCount>>

factoryVars == <<agent_cache, callPc, callArgs, callAgent, factoryCalls, created, callCount>>

repoVars == <<store, clock, opPc, opArgs, opPlan, opErr, opCount>>

plannerVars == <<plPc, parsed_result, plSteps, memPlan, memSteps>>

chatVars == <<threads, current, chatResult, chatCalls>>

vars == <<execVars, factoryVars, repoVars, plannerVars, chatVars>>

\* ------------------------------------------------------------------------
\* Helpers
\* ------------------------------------------------------------------------
StepIds == 1..MaxSteps

Perms(n) == {f \in [1..n -> 1..n] : \A i, j \in 1..n : f[i] = f[j] => i = j}

\* sorted(steps, key=lambda s: s.timestamp): the read list (step ids in the
\* order the store returned them) rearranged by ascending timestamp; the sort
\* is stable, as Python's is.
RECURSIVE Insert(_, _)
Insert(x, lst) ==
    IF lst = <<>> THEN <<x>>
    ELSE IF steps[x].timestamp < steps[Head(lst)].timestamp THEN <<x>> \o lst
    ELSE <<Head(lst)>> \o Insert(x, Tail(lst))

RECURSIVE SortedByTimestamp(_)
SortedByTimestamp(read) ==
    IF read = <<>> THEN <<>>
    ELSE Insert(read[Len(read)], SortedByTimestamp(SubSeq(read, 1, Len(read) - 1)))

\* mutant: only planned steps are matched, approved ones are passed over
RECURSIVE FirstMatchPlannedOnly(_)
FirstMatchPlannedOnly(lst) ==
    IF lst = <<>> THEN 0
    ELSE IF steps[Head(lst)].status = "planned" THEN Head(lst)
    ELSE FirstMatchPlannedOnly(Tail(lst))

\* lines 104-107: the first step of the list that is planned or approved
RECURSIVE FirstMatch(_)
FirstMatch(lst) ==
    IF lst = <<>> THEN 0
    ELSE IF steps[Head(lst)].status \in {"planned", "approved"} THEN Head(lst)
    ELSE FirstMatch(Tail(lst))

\* mutant: the list is scanned in the order the store returned it
_find_next_step_unsorted(read) == FirstMatch(read)

\* GroupChatManager._find_next_step; 0 stands for Python's None
_find_next_step(read) == FirstMatch(SortedByTimestamp(read))

\* get_steps_by_plan: the plan's steps, in whatever order the store returns them
get_steps_by_plan == {[i \in 1..Len(steps) |-> p[i]] : p \in Perms(Len(steps))}

\* memory store update_step(step): replace the stored step document
update_step(i, st, reply) ==
    [steps EXCEPT ![i].status = st, ![i].agent_reply = reply]

\* every frame above returns at once: nothing follows the awaited call in
\* _run_execution_loop (line 99) or _execute_step (line 148)
ReturnToCaller == pc' = "idle" /\ depth' = 0 /\ cur' = 0

\* ------------------------------------------------------------------------
\* Initial state: the planner has persisted a plan whose steps are all planned
\* ------------------------------------------------------------------------
InitExec ==
    /\ \E n \in 1..MaxSteps : \E ag \in [1..n -> AgentType] :
          steps = [i \in 1..n |-> [agent |-> ag[i], status |-> "planned",
                                   timestamp |-> i, agent_reply |-> None]]
    /\ planStatus = "in_progress"
    \* AgentFactory registers no class for HUMAN, so no instance of it exists
    /\ agent_instances \in SUBSET (AgentType \ {HUMAN})
    /\ pc = "idle"
    /\ cur = 0
    /\ depth = 0
    /\ invoked = [i \in 1..Len(steps) |-> 0]
    /\ notices = {}
    /\ pendingFeedback = NoFeedback
    /\ fbHandled = {}
    /\ fbCount = 0

\* ------------------------------------------------------------------------
\* Executor actions
\* ------------------------------------------------------------------------
\* GroupChatManager.start_plan_execution
StartPlanExecution ==
    /\ pc = "idle"
    /\ notices' = notices \cup {"begin"}
    /\ pc' = "loop"
    /\ depth' = 1
    /\ UNCHANGED <<steps, planStatus, agent_instances, cur, invoked,
                   pendingFeedback, fbHandled, fbCount>>
    /\ UNCHANGED <<factoryVars, repoVars, plannerVars, chatVars>>

\* mutant: when no step is found the loop just returns, without storing the
\* plan as completed and without the completion message
RunExecutionLoopSilentEnd ==
    /\ pc = "loop"
    /\ \E read \in get_steps_by_plan :
         LET next_step == _find_next_step(read) IN
         IF next_step = 0
         THEN /\ ReturnToCaller
              /\ UNCHANGED <<planStatus, notices>>
         ELSE /\ cur' = next_step
              /\ pc' = "execute"
              /\ UNCHANGED <<planStatus, notices, depth>>
    /\ UNCHANGED <<steps, agent_instances, invoked, pendingFeedback, fbHandled, fbCount>>
    /\ UNCHANGED <<factoryVars, repoVars, plannerVars, chatVars>>

\* GroupChatManager._run_execution_loop up to the call of _execute_step
RunExecutionLoop ==
    /\ pc = "loop"
    /\ \E read \in get_steps_by_plan :
         LET next_step == _find_next_step(read) IN
         IF next_step = 0
         THEN /\ planStatus' = "completed"
              /\ notices' = notices \cup {"completed"}
              /\ ReturnToCaller
         ELSE /\ cur' = next_step
              /\ pc' = "execute"
              /\ UNCHANGED <<planStatus, notices, depth>>
    /\ UNCHANGED <<steps, agent_instances, invoked, pendingFeedback, fbHandled, fbCount>>
    /\ UNCHANGED <<factoryVars, repoVars, plannerVars, chatVars>>

\* mutant: the test for a Human-typed step (line 111) is missing, the step is
\* treated like any other
ExecuteStepNoHumanCheck ==
    /\ pc = "execute"
    /\ IF steps[cur].agent \notin agent_instances
       THEN /\ ReturnToCaller
            /\ UNCHANGED <<steps, notices>>
       ELSE /\ steps' = update_step(cur, "in_progress", steps[cur].agent_reply)
            /\ pc' = "dispatch"
            /\ UNCHANGED <<notices, depth, cur>>
    /\ UNCHANGED <<planStatus, agent_instances, invoked, pendingFeedback, fbHandled, fbCount>>
    /\ UNCHANGED <<factoryVars, repoVars, plannerVars, chatVars>>

\* mutant: the step is handed to its handler without in_progress being stored
ExecuteStepNoPersist ==
    /\ pc = "execute"
    /\ IF steps[cur].agent = HUMAN
       THEN /\ notices' = notices \cup {"awaiting"}
            /\ ReturnToCaller
            /\ UNCHANGED steps
       ELSE IF steps[cur].agent \notin agent_instances
       THEN /\ ReturnToCaller
            /\ UNCHANGED <<steps, notices>>
       ELSE /\ pc' = "dispatch"
            /\ UNCHANGED <<steps, notices, depth, cur>>
    /\ UNCHANGED <<planStatus, agent_instances, invoked, pendingFeedback, fbHandled, fbCount>>
    /\ UNCHANGED <<factoryVars, repoVars, plannerVars, chatVars>>

\* mutant: the pause on a Human-typed step also marks it in_progress
ExecuteStepMarksHuman ==
    /\ pc = "execute"
    /\ IF steps[cur].agent = HUMAN
       THEN /\ notices' = notices \cup {"awaiting"}
            /\ ReturnToCaller
            /\ steps' = update_step(cur, "in_progress", steps[cur].agent_reply)
       ELSE IF steps[cur].agent \notin agent_instances
       THEN /\ ReturnToCaller
            /\ UNCHANGED <<steps, notices>>
       ELSE /\ steps' = update_step(cur, "in_progress", steps[cur].agent_reply)
            /\ pc' = "dispatch"
            /\ UNCHANGED <<notices, depth, cur>>
    /\ UNCHANGED <<planStatus, agent_instances, invoked, pendingFeedback, fbHandled, fbCount>>
    /\ UNCHANGED <<factoryVars, repoVars, plannerVars, chatVars>>

\* GroupChatManager._execute_step up to the call of handle_action_request
ExecuteStep ==
    /\ pc = "execute"
    /\ IF steps[cur].agent = HUMAN
       THEN /\ notices' = notices \cup {"awaiting"}
            /\ ReturnToCaller
            /\ UNCHANGED steps
       ELSE IF steps[cur].agent \notin agent_instances
       THEN /\ ReturnToCaller
            /\ UNCHANGED <<steps, notices>>
       ELSE /\ steps' = update_step(cur, "in_progress", steps[cur].agent_reply)
            /\ pc' = "dispatch"
            /\ UNCHANGED <<notices, depth, cur>>
    /\ UNCHANGED <<planStatus, agent_instances, invoked, pendingFeedback, fbHandled, fbCount>>
    /\ UNCHANGED <<factoryVars, repoVars, plannerVars, chatVars>>

\* mutant: after the handler returns, _execute_step returns instead of
\* calling _run_execution_loop again
HandleActionRequestNoContinue(ok) ==
    /\ pc = "dispatch"
    /\ invoked' = [invoked EXCEPT ![cur] = @ + 1]
    /\ steps' = IF ok THEN update_step(cur, "completed", "content")
                      ELSE update_step(cur, "failed", "error")
    /\ ReturnToCaller
    /\ UNCHANGED <<planStatus, agent_instances, notices, pendingFeedback, fbHandled, fbCount>>
    /\ UNCHANGED <<factoryVars, repoVars, plannerVars, chatVars>>

\* mutant: the handler finds no step document (the branch of lines 62-64) and
\* returns without storing an outcome
HandleActionRequestStepNotFound(ok) ==
    /\ pc = "dispatch"
    /\ invoked' = [invoked EXCEPT ![cur] = @ + 1]
    /\ pc' = "loop"
    /\ depth' = depth + 1
    /\ UNCHANGED <<steps, planStatus, agent_instances, cur, notices, pendingFeedback,
                   fbHandled, fbCount>>
    /\ UNCHANGED <<factoryVars, repoVars, plannerVars, chatVars>>

\* BaseAgent.handle_action_request for the selected step, then line 148 of
\* _execute_step: the loop is entered again, one activation deeper
HandleActionRequest(ok) ==
    /\ pc = "dispatch"
    /\ invoked' = [invoked EXCEPT ![cur] = @ + 1]
    /\ steps' = IF ok THEN update_step(cur, "completed", "content")
                      ELSE update_step(cur, "failed", "error")
    /\ pc' = "loop"
    /\ depth' = depth + 1
    /\ UNCHANGED <<planStatus, agent_instances, cur, notices, pendingFeedback,
                   fbHandled, fbCount>>
    /\ UNCHANGED <<factoryVars, repoVars, plannerVars, chatVars>>

\* HumanAgent.handle_human_feedback: records the approval or rejection on the
\* step; the feedback is then passed on to the executor
HumanAgentFeedback(s, approved) ==
    /\ pendingFeedback = NoFeedback
    /\ fbCount < MaxFeedback
    /\ s \in 1..Len(steps)
    /\ steps' = [steps EXCEPT ![s].status = IF approved THEN "approved" ELSE "rejected"]
    /\ pendingFeedback' = [step_id |-> s, approved |-> approved]
    /\ fbCount' = fbCount + 1
    /\ UNCHANGED <<planStatus, agent_instances, pc, cur, depth, invoked, notices, fbHandled>>
    /\ UNCHANGED <<factoryVars, repoVars, plannerVars, chatVars>>

\* GroupChatManager.handle_human_feedback
HandleHumanFeedback ==
    /\ pc = "idle"
    /\ pendingFeedback # NoFeedback
    /\ IF pendingFeedback.approved
       THEN /\ pc' = "loop"
            /\ depth' = 1
            /\ UNCHANGED <<planStatus, notices>>
       ELSE /\ planStatus' = "failed"
            /\ notices' = notices \cup {"halted"}
            /\ UNCHANGED <<pc, depth>>
    /\ fbHandled' = fbHandled \cup {pendingFeedback}
    /\ pendingFeedback' = NoFeedback
    /\ UNCHANGED <<steps, agent_instances, cur, invoked, fbCount>>
    /\ UNCHANGED <<factoryVars, repoVars, plannerVars, chatVars>>


\* ------------------------------------------------------------------------
\* AgentFactory (kernel_agents/agent_factory.py)
\* ------------------------------------------------------------------------
Callers == 1..NumCallers
Sessions == {"s1", "s2"}
\* AgentFactory._agent_classes: the agent types with a registered class
_agent_classes == {PLANNER, VALUATION}
\* the agent types a caller may ask for
RequestedTypes == _agent_classes \cup {HUMAN}
NoArgs == [agent_type |-> None, session_id |-> None]

InitFactory ==
    /\ agent_cache = << >>
    /\ callPc = [c \in Callers |-> "idle"]
    /\ callArgs = [c \in Callers |-> NoArgs]
    /\ callAgent = [c \in Callers |-> 0]
    /\ factoryCalls = [k \in Sessions \X _agent_classes |-> 0]
    /\ created = 0
    /\ callCount = 0

\* line 41: session_id in cls._agent_cache and agent_type in cls._agent_cache[session_id]
Cached(agent_type, session_id) ==
    /\ session_id \in DOMAIN agent_cache
    /\ agent_type \in DOMAIN agent_cache[session_id]

\* mutant: the session's dictionary is replaced by one holding only the new
\* agent, instead of the agent being added to it
CachePutReplacesSession(agent_type, session_id, agent) ==
    [s \in DOMAIN agent_cache \cup {session_id} |->
        IF s = session_id THEN [t \in {agent_type} |-> agent] ELSE agent_cache[s]]

\* mutant: the agent is stored under its type for every session
CachePutAllSessions(agent_type, session_id, agent) ==
    [s \in Sessions |->
        LET inner == IF s \in DOMAIN agent_cache THEN agent_cache[s] ELSE << >>
        IN  [t \in DOMAIN inner \cup {agent_type} |->
                IF t = agent_type THEN agent ELSE inner[t]]]

\* lines 64-66: cls._agent_cache[session_id][agent_type] = agent
CachePut(agent_type, session_id, agent) ==
    LET inner == IF session_id \in DOMAIN agent_cache THEN agent_cache[session_id] ELSE << >>
        inner2 == [t \in DOMAIN inner \cup {agent_type} |->
                       IF t = agent_type THEN agent ELSE inner[t]]
    IN [s \in DOMAIN agent_cache \cup {session_id} |->
            IF s = session_id THEN inner2 ELSE agent_cache[s]]

\* mutant: a type without a registered class is built by the base class
\* instead of being refused
CreateAgentCallDefaultClass(c, agent_type, session_id) ==
    /\ callPc[c] \in {"idle", "returned", "raised"}
    /\ callCount < MaxCalls
    /\ callCount' = callCount + 1
    /\ callArgs' = [callArgs EXCEPT ![c] = [agent_type |-> agent_type, session_id |-> session_id]]
    /\ IF Cached(agent_type, session_id)
       THEN /\ callPc' = [callPc EXCEPT ![c] = "returned"]
            /\ callAgent' = [callAgent EXCEPT ![c] = agent_cache[session_id][agent_type]]
            /\ UNCHANGED factoryCalls
       ELSE /\ callPc' = [callPc EXCEPT ![c] = "creating"]
            /\ callAgent' = [callAgent EXCEPT ![c] = 0]
            /\ factoryCalls' = IF agent_type \in _agent_classes
                                 THEN [factoryCalls EXCEPT ![<<session_id, agent_type>>] = @ + 1]
                                 ELSE factoryCalls
    /\ UNCHANGED <<agent_cache, created>>
    /\ UNCHANGED <<execVars, repoVars, plannerVars, chatVars>>

\* create_agent from its entry to its first await: a cache hit returns, an
\* unknown type raises ValueError, otherwise agent_class.create is called
CreateAgentCall(c, agent_type, session_id) ==
    /\ callPc[c] \in {"idle", "returned", "raised"}
    /\ callCount < MaxCalls
    /\ callCount' = callCount + 1
    /\ callArgs' = [callArgs EXCEPT ![c] = [agent_type |-> agent_type, session_id |-> session_id]]
    /\ IF Cached(agent_type, session_id)
       THEN /\ callPc' = [callPc EXCEPT ![c] = "returned"]
            /\ callAgent' = [callAgent EXCEPT ![c] = agent_cache[session_id][agent_type]]
            /\ UNCHANGED factoryCalls
       ELSE IF agent_type \notin _agent_classes
       THEN /\ callPc' = [callPc EXCEPT ![c] = "raised"]
            /\ callAgent' = [callAgent EXCEPT ![c] = 0]
            /\ UNCHANGED factoryCalls
       ELSE /\ callPc' = [callPc EXCEPT ![c] = "creating"]
            /\ callAgent' = [callAgent EXCEPT ![c] = 0]
            /\ factoryCalls' = [factoryCalls EXCEPT ![<<session_id, agent_type>>] = @ + 1]
    /\ UNCHANGED <<agent_cache, created>>
    /\ UNCHANGED <<execVars, repoVars, plannerVars, chatVars>>

\* agent_class.create returns a new instance: it is cached and returned
CreateAgentReturn(c) ==
    /\ callPc[c] = "creating"
    /\ created' = created + 1
    /\ agent_cache' = CachePut(callArgs[c].agent_type, callArgs[c].session_id, created + 1)
    /\ callAgent' = [callAgent EXCEPT ![c] = created + 1]
    /\ callPc' = [callPc EXCEPT ![c] = "returned"]
    /\ UNCHANGED <<callArgs, factoryCalls, callCount>>
    /\ UNCHANGED <<execVars, repoVars, plannerVars, chatVars>>

\* agent_class.create raises (remote provisioning failed): the exception
\* leaves create_agent before the cache is written
CreateAgentRaise(c) ==
    /\ callPc[c] = "creating"
    /\ callPc' = [callPc EXCEPT ![c] = "raised"]
    /\ UNCHANGED <<agent_cache, callArgs, callAgent, factoryCalls, created, callCount>>
    /\ UNCHANGED <<execVars, repoVars, plannerVars, chatVars>>

\* the executor at rest on a fixed plan, for the specifications of the
\* other components
ExecAtRest ==
    /\ steps = <<[agent |-> VALUATION, status |-> "planned", timestamp |-> 1, agent_reply |-> None]>>
    /\ planStatus = "in_progress"
    /\ agent_instances = {}
    /\ pc = "idle" /\ cur = 0 /\ depth = 0
    /\ invoked = <<0>>
    /\ notices = {}
    /\ pendingFeedback = NoFeedback /\ fbHandled = {} /\ fbCount = 0

\* ------------------------------------------------------------------------
\* PlannerAgent (kernel_agents/planner_agent.py)
\* ------------------------------------------------------------------------
\* a string in the backend's response that names no member of AgentType
UNKNOWN == "Unknown_Agent"
\* the agent a parsed step can name
StepAgents == AgentType \cup {UNKNOWN}
\* the step lists the structured response can parse into
ParsedResults == UNION {[1..n -> StepAgents] : n \in 0..MaxSteps}

InitPlanner ==
    /\ plPc = "idle"
    /\ parsed_result = <<>>
    /\ plSteps = <<>>
    /\ memPlan = FALSE
    /\ memSteps = <<>>

\* the memory store keeps the Plan it is given
add_plan == memPlan' = TRUE

\* the memory store keeps the Step it is given, after those it already has
add_step(step) == memSteps' = Append(memSteps, step)

\* a planner that removes what it has persisted when a step cannot be stored
AddStepCompensates(ok) ==
    /\ plPc = "steps"
    /\ Len(plSteps) < Len(parsed_result)
    /\ LET step_data == parsed_result[Len(plSteps) + 1]
           step == [id |-> Len(plSteps) + 1, agent |-> step_data, status |-> "planned"]
       IN  IF step_data \in AgentType /\ ok
             THEN /\ add_step(step)
                  /\ plSteps' = Append(plSteps, step)
                  /\ UNCHANGED <<plPc, memPlan>>
             ELSE /\ plPc' = "raised"
                  /\ memPlan' = FALSE
                  /\ memSteps' = <<>>
                  /\ UNCHANGED plSteps
    /\ UNCHANGED parsed_result
    /\ UNCHANGED <<execVars, factoryVars, repoVars, chatVars>>

\* handle_input_task up to the parse: the backend is invoked and its
\* response parsed; either can raise, which the except clause re-raises
InvokeAndParse(result, ok) ==
    /\ plPc = "idle"
    /\ IF ok
         THEN /\ parsed_result' = result
              /\ plPc' = "add_plan"
         ELSE /\ plPc' = "raised"
              /\ UNCHANGED parsed_result
    /\ UNCHANGED <<plSteps, memPlan, memSteps>>
    /\ UNCHANGED <<execVars, factoryVars, repoVars, chatVars>>

\* the Plan is built and handed to the memory store, whose call can raise
AddPlan(ok) ==
    /\ plPc = "add_plan"
    /\ IF ok
         THEN /\ add_plan
              /\ plPc' = "steps"
         ELSE /\ plPc' = "raised"
              /\ UNCHANGED memPlan
    /\ UNCHANGED <<parsed_result, plSteps, memSteps>>
    /\ UNCHANGED <<execVars, factoryVars, repoVars, chatVars>>

\* one pass of the for loop: the Step is built (AgentType(...) raises on a
\* string that names no member), stored (the call can raise) and appended
\* to the local list
AddStep(ok) ==
    /\ plPc = "steps"
    /\ Len(plSteps) < Len(parsed_result)
    /\ LET step_data == parsed_result[Len(plSteps) + 1]
           step == [id |-> Len(plSteps) + 1, agent |-> step_data, status |-> "planned"]
       IN  IF step_data \in AgentType /\ ok
             THEN /\ add_step(step)
                  /\ plSteps' = Append(plSteps, step)
                  /\ UNCHANGED plPc
             ELSE /\ plPc' = "raised"
                  /\ UNCHANGED <<plSteps, memSteps>>
    /\ UNCHANGED <<parsed_result, memPlan>>
    /\ UNCHANGED <<execVars, factoryVars, repoVars, chatVars>>

\* return plan, steps
ReturnPlan ==
    /\ plPc = "steps"
    /\ Len(plSteps) = Len(parsed_result)
    /\ plPc' = "returned"
    /\ UNCHANGED <<parsed_result, plSteps, memPlan, memSteps>>
    /\ UNCHANGED <<execVars, factoryVars, repoVars, chatVars>>

NextPlanner ==
    \/ \E result \in ParsedResults, ok \in BOOLEAN : InvokeAndParse(result, ok)
    \/ \E ok \in BOOLEAN : AddPlan(ok)
    \/ \E ok \in BOOLEAN : AddStep(ok)
    \/ ReturnPlan

\* ------------------------------------------------------------------------
\* AgentChatService (foundry_sdk_phase/backend/agent_chat_service.py)
\* ------------------------------------------------------------------------
ThreadNames == {"t-1", "t-2", "t-3"}

InitChat ==
    /\ threads = <<>>
    /\ current = None
    /\ chatResult = None
    /\ chatCalls = 0

\* name in self.threads
HasThread(name) == \E i \in 1..Len(threads) : threads[i] = name

\* next(iter(d), None) for a dict with the keys d
FirstKey(d) == IF d = <<>> THEN None ELSE d[1]

\* create_thread(name): the remote create can raise, before anything is
\* assigned; assigning to an existing key keeps the key's position
CreateThread(name, ok) ==
    /\ chatCalls < MaxChatCalls
    /\ chatCalls' = chatCalls + 1
    /\ IF ok
         THEN /\ threads' = IF HasThread(name) THEN threads ELSE Append(threads, name)
              /\ current' = name
              /\ chatResult' = "ok"
         ELSE /\ chatResult' = "HttpResponseError"
              /\ UNCHANGED <<threads, current>>
    /\ UNCHANGED <<execVars, factoryVars, repoVars, plannerVars>>

\* delete_thread(name): the entry is popped, then the remote delete is
\* called for a popped id and can raise, then current is reassigned
DeleteThread(name, ok) ==
    /\ chatCalls < MaxChatCalls
    /\ chatCalls' = chatCalls + 1
    /\ LET rest == SelectSeq(threads, LAMBDA n : n # name)
       IN  /\ threads' = rest
           /\ IF HasThread(name) /\ ~ok
                THEN /\ chatResult' = "HttpResponseError"
                     /\ UNCHANGED current
                ELSE /\ current' = FirstKey(rest)
                     /\ chatResult' = "ok"
    /\ UNCHANGED <<execVars, factoryVars, repoVars, plannerVars>>

\* switch(name)
Switch(name) ==
    /\ chatCalls < MaxChatCalls
    /\ chatCalls' = chatCalls + 1
    /\ IF ~HasThread(name)
         THEN /\ chatResult' = "ValueError"
              /\ UNCHANGED <<threads, current>>
         ELSE /\ current' = name
              /\ chatResult' = "ok"
              /\ UNCHANGED threads
    /\ UNCHANGED <<execVars, factoryVars, repoVars, plannerVars>>

NextChat ==
    \/ \E name \in ThreadNames, ok \in BOOLEAN : CreateThread(name, ok)
    \/ \E name \in ThreadNames, ok \in BOOLEAN : DeleteThread(name, ok)
    \/ \E name \in ThreadNames : Switch(name)

\* ------------------------------------------------------------------------
\* WorkflowStateRepository (agentic_memory/workflow_state_memory.py)
\* ------------------------------------------------------------------------
Ops == 1..NumOps
Tenants == {"t1"}
PlanIds == {"p1", "p2", "p3"}
RepoStepIds == {"a", "b", "c"}
NoDoc == [id |-> None]
NoOp == [op |-> None]
\* the exceptions update_step and update_plan_status raise (lines 50, 57, 67)
PlanNotFound == "ValueError: Plan not found"
StepNotFound == "ValueError: Step not found in plan"

\* a Plan document (data_models/workflow_models.py)
NewPlan(id, tenant, stepIds, now) ==
    [id |-> id, tenant_id |-> tenant, status |-> "in_progress",
     steps |-> [i \in 1..Len(stepIds) |-> [id |-> stepIds[i], status |-> "pending"]],
     created_at |-> now, updated_at |-> now]

\* plans p1 (steps a, b) and p2 (step c) are stored; p3 is not
InitRepository ==
    /\ store = [k \in Tenants \X PlanIds |->
                  IF k[2] = "p1" THEN NewPlan("p1", k[1], <<"a", "b">>, 0)
                  ELSE IF k[2] = "p2" THEN NewPlan("p2", k[1], <<"c">>, 0)
                  ELSE NoDoc]
    /\ clock = 0
    /\ opPc = [o \in Ops |-> "idle"]
    /\ opArgs = [o \in Ops |-> NoOp]
    /\ opPlan = [o \in Ops |-> NoDoc]
    /\ opErr = [o \in Ops |-> None]
    /\ opCount = 0

\* mutant: the read ignores the plan id and returns the tenant's first plan
get_plan_any(plan_id, tenant_id) == store[<<tenant_id, "p1">>]

\* get_plan: read_item, or None when Cosmos reports the item missing
get_plan(plan_id, tenant_id) == store[<<tenant_id, plan_id>>]

\* lines 52-55: index of the first step whose id matches, 0 if the for loop
\* runs to its else branch
RECURSIVE FindStep(_, _, _)
FindStep(stepList, id, i) ==
    IF i > Len(stepList) THEN 0
    ELSE IF stepList[i].id = id THEN i
    ELSE FindStep(stepList, id, i + 1)

CanStart(o) == opPc[o] \in {"idle", "done", "raised"} /\ opCount < MaxOps

\* mutant: a step id that is not in the plan is appended instead of raising
UpdateStepAppends(o, plan_id, tenant_id, updated_step) ==
    /\ CanStart(o)
    /\ opCount' = opCount + 1
    /\ opArgs' = [opArgs EXCEPT ![o] = [op |-> "update_step", plan_id |-> plan_id,
                                        tenant_id |-> tenant_id, step |-> updated_step]]
    /\ LET plan == get_plan(plan_id, tenant_id)
           i == FindStep(plan.steps, updated_step.id, 1)
       IN IF plan = NoDoc
          THEN /\ opPc' = [opPc EXCEPT ![o] = "raised"]
               /\ opErr' = [opErr EXCEPT ![o] = PlanNotFound]
               /\ opPlan' = [opPlan EXCEPT ![o] = NoDoc]
          ELSE /\ opPc' = [opPc EXCEPT ![o] = "write"]
               /\ opErr' = [opErr EXCEPT ![o] = None]
               /\ opPlan' = [opPlan EXCEPT ![o] =
                     [plan EXCEPT !.steps = IF i = 0 THEN Append(@, updated_step)
                                            ELSE [@ EXCEPT ![i] = updated_step],
                                  !.updated_at = clock]]
    /\ UNCHANGED <<store, clock>>
    /\ UNCHANGED <<execVars, factoryVars, plannerVars, chatVars>>

\* the list without its element at position i
RemoveAt(lst, i) == SubSeq(lst, 1, i - 1) \o SubSeq(lst, i + 1, Len(lst))

\* mutant: the matching step is removed and the updated step appended, so the
\* step changes its position
UpdateStepMovesToEnd(o, plan_id, tenant_id, updated_step) ==
    /\ CanStart(o)
    /\ opCount' = opCount + 1
    /\ opArgs' = [opArgs EXCEPT ![o] = [op |-> "update_step", plan_id |-> plan_id,
                                        tenant_id |-> tenant_id, step |-> updated_step]]
    /\ LET plan == get_plan(plan_id, tenant_id)
           i == FindStep(plan.steps, updated_step.id, 1)
       IN IF plan = NoDoc
          THEN /\ opPc' = [opPc EXCEPT ![o] = "raised"]
               /\ opErr' = [opErr EXCEPT ![o] = PlanNotFound]
               /\ opPlan' = [opPlan EXCEPT ![o] = NoDoc]
          ELSE IF i = 0
          THEN /\ opPc' = [opPc EXCEPT ![o] = "raised"]
               /\ opErr' = [opErr EXCEPT ![o] = StepNotFound]
               /\ opPlan' = [opPlan EXCEPT ![o] = NoDoc]
          ELSE /\ opPc' = [opPc EXCEPT ![o] = "write"]
               /\ opErr' = [opErr EXCEPT ![o] = None]
               /\ opPlan' = [opPlan EXCEPT ![o] =
                     [plan EXCEPT !.steps = Append(RemoveAt(@, i), updated_step),
                                  !.updated_at = clock]]
    /\ UNCHANGED <<store, clock>>
    /\ UNCHANGED <<execVars, factoryVars, plannerVars, chatVars>>

\* update_step up to the await of replace_item (lines 48-60): the plan is
\* read, the step replaced in the in-memory copy and updated_at set
UpdateStep(o, plan_id, tenant_id, updated_step) ==
    /\ CanStart(o)
    /\ opCount' = opCount + 1
    /\ opArgs' = [opArgs EXCEPT ![o] = [op |-> "update_step", plan_id |-> plan_id,
                                        tenant_id |-> tenant_id, step |-> updated_step]]
    /\ LET plan == get_plan(plan_id, tenant_id)
           i == FindStep(plan.steps, updated_step.id, 1)
       IN IF plan = NoDoc
          THEN /\ opPc' = [opPc EXCEPT ![o] = "raised"]
               /\ opErr' = [opErr EXCEPT ![o] = PlanNotFound]
               /\ opPlan' = [opPlan EXCEPT ![o] = NoDoc]
          ELSE IF i = 0
          THEN /\ opPc' = [opPc EXCEPT ![o] = "raised"]
               /\ opErr' = [opErr EXCEPT ![o] = StepNotFound]
               /\ opPlan' = [opPlan EXCEPT ![o] = NoDoc]
          ELSE /\ opPc' = [opPc EXCEPT ![o] = "write"]
               /\ opErr' = [opErr EXCEPT ![o] = None]
               /\ opPlan' = [opPlan EXCEPT ![o] =
                     [plan EXCEPT !.steps[i] = updated_step, !.updated_at = clock]]
    /\ UNCHANGED <<store, clock>>
    /\ UNCHANGED <<execVars, factoryVars, plannerVars, chatVars>>

\* mutant: a plan that is not stored is created with the new status instead
\* of the call raising
UpdatePlanStatusCreates(o, plan_id, tenant_id, new_status) ==
    /\ CanStart(o)
    /\ opCount' = opCount + 1
    /\ opArgs' = [opArgs EXCEPT ![o] = [op |-> "update_plan_status", plan_id |-> plan_id,
                                        tenant_id |-> tenant_id, new_status |-> new_status]]
    /\ LET stored == get_plan(plan_id, tenant_id)
           plan == IF stored = NoDoc THEN NewPlan(plan_id, tenant_id, <<>>, clock) ELSE stored
       IN /\ opPc' = [opPc EXCEPT ![o] = "write"]
          /\ opErr' = [opErr EXCEPT ![o] = None]
          /\ opPlan' = [opPlan EXCEPT ![o] =
                [plan EXCEPT !.status = new_status, !.updated_at = clock]]
    /\ UNCHANGED <<store, clock>>
    /\ UNCHANGED <<execVars, factoryVars, plannerVars, chatVars>>

\* mutant: the new status is also written to every step of the plan
UpdatePlanStatusCascades(o, plan_id, tenant_id, new_status) ==
    /\ CanStart(o)
    /\ opCount' = opCount + 1
    /\ opArgs' = [opArgs EXCEPT ![o] = [op |-> "update_plan_status", plan_id |-> plan_id,
                                        tenant_id |-> tenant_id, new_status |-> new_status]]
    /\ LET plan == get_plan(plan_id, tenant_id)
       IN IF plan = NoDoc
          THEN /\ opPc' = [opPc EXCEPT ![o] = "raised"]
               /\ opErr' = [opErr EXCEPT ![o] = PlanNotFound]
               /\ opPlan' = [opPlan EXCEPT ![o] = NoDoc]
          ELSE /\ opPc' = [opPc EXCEPT ![o] = "write"]
               /\ opErr' = [opErr EXCEPT ![o] = None]
               /\ opPlan' = [opPlan EXCEPT ![o] =
                     [plan EXCEPT !.status = new_status, !.updated_at = clock,
                                  !.steps = [j \in 1..Len(@) |-> [@[j] EXCEPT !.status = new_status]]]]
    /\ UNCHANGED <<store, clock>>
    /\ UNCHANGED <<execVars, factoryVars, plannerVars, chatVars>>

\* update_plan_status up to the await of replace_item (lines 65-71)
UpdatePlanStatus(o, plan_id, tenant_id, new_status) ==
    /\ CanStart(o)
    /\ opCount' = opCount + 1
    /\ opArgs' = [opArgs EXCEPT ![o] = [op |-> "update_plan_status", plan_id |-> plan_id,
                                        tenant_id |-> tenant_id, new_status |-> new_status]]
    /\ LET plan == get_plan(plan_id, tenant_id)
       IN IF plan = NoDoc
          THEN /\ opPc' = [opPc EXCEPT ![o] = "raised"]
               /\ opErr' = [opErr EXCEPT ![o] = PlanNotFound]
               /\ opPlan' = [opPlan EXCEPT ![o] = NoDoc]
          ELSE /\ opPc' = [opPc EXCEPT ![o] = "write"]
               /\ opErr' = [opErr EXCEPT ![o] = None]
               /\ opPlan' = [opPlan EXCEPT ![o] =
                     [plan EXCEPT !.status = new_status, !.updated_at = clock]]
    /\ UNCHANGED <<store, clock>>
    /\ UNCHANGED <<execVars, factoryVars, plannerVars, chatVars>>

\* mutant: the write applies only the caller's change to the document that
\* is stored now, instead of replacing the whole document
ReplaceItemPatch(o) ==
    /\ opPc[o] = "write"
    /\ LET k == <<opPlan[o].tenant_id, opPlan[o].id>>
           i == FindStep(store[k].steps, opArgs[o].step.id, 1)
       IN store' = [store EXCEPT ![k] =
                      IF @ = NoDoc THEN opPlan[o]
                      ELSE IF opArgs[o].op = "update_plan_status"
                      THEN [@ EXCEPT !.status = opArgs[o].new_status,
                                     !.updated_at = opPlan[o].updated_at]
                      ELSE IF i = 0 THEN opPlan[o]
                      ELSE [@ EXCEPT !.steps[i] = opArgs[o].step,
                                     !.updated_at = opPlan[o].updated_at]]
    /\ opPc' = [opPc EXCEPT ![o] = "done"]
    /\ UNCHANGED <<clock, opArgs, opPlan, opErr, opCount>>
    /\ UNCHANGED <<execVars, factoryVars, plannerVars, chatVars>>

\* container.replace_item(item=plan.id, body=plan.model_dump()): the whole
\* document is written and returned (lines 60-61, 72-73)
ReplaceItem(o) ==
    /\ opPc[o] = "write"
    /\ store' = [store EXCEPT ![<<opPlan[o].tenant_id, opPlan[o].id>>] = opPlan[o]]
    /\ opPc' = [opPc EXCEPT ![o] = "done"]
    /\ UNCHANGED <<clock, opArgs, opPlan, opErr, opCount>>
    /\ UNCHANGED <<execVars, factoryVars, plannerVars, chatVars>>

\* create_plan: container.upsert_item of a new plan document (lines 23-25)
CreatePlan(o, plan_id, tenant_id) ==
    /\ CanStart(o)
    /\ opCount' = opCount + 1
    /\ opArgs' = [opArgs EXCEPT ![o] = [op |-> "create_plan", plan_id |-> plan_id,
                                        tenant_id |-> tenant_id]]
    /\ store' = [store EXCEPT ![<<tenant_id, plan_id>>] = NewPlan(plan_id, tenant_id, <<>>, clock)]
    /\ opPc' = [opPc EXCEPT ![o] = "done"]
    /\ opErr' = [opErr EXCEPT ![o] = None]
    /\ opPlan' = [opPlan EXCEPT ![o] = NoDoc]
    /\ UNCHANGED clock
    /\ UNCHANGED <<execVars, factoryVars, plannerVars, chatVars>>

\* get_plan called by a client (lines 27-33): the document or None
GetPlan(o, plan_id, tenant_id) ==
    /\ CanStart(o)
    /\ opCount' = opCount + 1
    /\ opArgs' = [opArgs EXCEPT ![o] = [op |-> "get_plan", plan_id |-> plan_id,
                                        tenant_id |-> tenant_id]]
    /\ opPlan' = [opPlan EXCEPT ![o] = get_plan(plan_id, tenant_id)]
    /\ opPc' = [opPc EXCEPT ![o] = "done"]
    /\ opErr' = [opErr EXCEPT ![o] = None]
    /\ UNCHANGED <<store, clock>>
    /\ UNCHANGED <<execVars, factoryVars, plannerVars, chatVars>>

\* time passes
Tick ==
    /\ clock < MaxClock
    /\ clock' = clock + 1
    /\ UNCHANGED <<store, opPc, opArgs, opPlan, opErr, opCount>>
    /\ UNCHANGED <<execVars, factoryVars, plannerVars, chatVars>>

InitRepositorySpec == ExecAtRest /\ InitFactory /\ InitRepository /\ InitPlanner /\ InitChat

NextRepository ==
    \/ \E o \in Ops, p \in PlanIds, t \in Tenants, id \in RepoStepIds, st \in {"completed"} :
          UpdateStep(o, p, t, [id |-> id, status |-> st])
    \/ \E o \in Ops, p \in PlanIds, t \in Tenants, st \in {"completed", "failed"} :
          UpdatePlanStatus(o, p, t, st)
    \/ \E o \in Ops : ReplaceItem(o)
    \/ \E o \in Ops, p \in PlanIds, t \in Tenants : CreatePlan(o, p, t)
    \/ \E o \in Ops, p \in PlanIds, t \in Tenants : GetPlan(o, p, t)
    \/ Tick

SpecRepository == InitRepositorySpec /\ [][NextRepository]_vars

InitFactorySpec == ExecAtRest /\ InitFactory /\ InitRepository /\ InitPlanner /\ InitChat

NextFactory ==
    \/ \E c \in Callers, t \in RequestedTypes, s \in Sessions : CreateAgentCall(c, t, s)
    \/ \E c \in Callers : CreateAgentReturn(c)
    \/ \E c \in Callers : CreateAgentRaise(c)

SpecFactory == InitFactorySpec /\ [][NextFactory]_vars

\* create_agent called by callers that await each call before the next one
\* is made: no call begins while another is inside agent_class.create
SequentialCall(c, agent_type, session_id) ==
    /\ \A c2 \in Callers : callPc[c2] # "creating"
    /\ CreateAgentCall(c, agent_type, session_id)

NextFactorySequential ==
    \/ \E c \in Callers, t \in RequestedTypes, s \in Sessions : SequentialCall(c, t, s)
    \/ \E c \in Callers : CreateAgentReturn(c)
    \/ \E c \in Callers : CreateAgentRaise(c)

SpecFactorySequential == InitFactorySpec /\ [][NextFactorySequential]_vars

InitPlannerSpec == ExecAtRest /\ InitFactory /\ InitRepository /\ InitPlanner /\ InitChat

SpecPlanner == InitPlannerSpec /\ [][NextPlanner]_vars

InitChatSpec == ExecAtRest /\ InitFactory /\ InitRepository /\ InitPlanner /\ InitChat

SpecChat == InitChatSpec /\ [][NextChat]_vars

Init == InitExec /\ InitFactory /\ InitRepository /\ InitPlanner /\ InitChat

Next ==
    \/ StartPlanExecution
    \/ RunExecutionLoop
    \/ ExecuteStep
    \/ \E ok \in BOOLEAN : HandleActionRequest(ok)
    \/ \E s \in StepIds, approved \in BOOLEAN : HumanAgentFeedback(s, approved)
    \/ HandleHumanFeedback

Spec == Init /\ [][Next]_vars

\* one run of the executor on a plan, with no human feedback submitted
RunNext ==
    \/ StartPlanExecution
    \/ RunExecutionLoop
    \/ ExecuteStep
    \/ \E ok \in BOOLEAN : HandleActionRequest(ok)

\* the event loop resumes a coroutine whose awaited call can complete, and
\* a handler invocation eventually returns
FairSpec ==
    /\ Init /\ [][RunNext]_vars
    /\ WF_vars(RunExecutionLoop)
    /\ WF_vars(ExecuteStep)
    /\ WF_vars(\E ok \in BOOLEAN : HandleActionRequest(ok))

TypeOK ==
    /\ planStatus \in PlanStatus
    /\ \A i \in 1..Len(steps) : steps[i].status \in StepStatus
    /\ pc \in {"idle", "loop", "execute", "dispatch"}

\* ------------------------------------------------------------------------
\* Properties of the executor
\* ------------------------------------------------------------------------
Idx == 1..Len(steps)
Runnable(i) == steps[i].status \in {"planned", "approved"}
\* the first runnable step by creation order, 0 if there is none
FirstRunnable ==
    IF \E i \in Idx : Runnable(i)
    THEN CHOOSE i \in Idx : Runnable(i) /\ \A j \in 1..(i - 1) : ~Runnable(j)
    ELSE 0
HumanIsNext == FirstRunnable # 0 /\ steps[FirstRunnable].agent = HUMAN
Statuses == [i \in Idx |-> steps[i].status]
AllNonHuman == \A i \in Idx : steps[i].agent # HUMAN
AllRegistered == \A i \in Idx : steps[i].agent # HUMAN => steps[i].agent \in agent_instances
SomeFailed == \E i \in Idx : steps[i].status = "failed"
FeedbackGiven(i) ==
    \/ pendingFeedback.step_id = i
    \/ \E f \in fbHandled : f.step_id = i

\* C1 (halt on failure): once the handler of step i has failed, no handler
\* is invoked for a later step, and when the executor comes to rest the plan
\* is failed and step i is failed.
C1_HaltOnFailure ==
    [][ /\ \A j \in Idx : invoked'[j] > invoked[j]
              => \A i \in 1..(j - 1) : steps[i].status # "failed"
        /\ (pc = "dispatch" /\ pc' # "dispatch" /\ steps'[cur].agent_reply = "error")
              => steps'[cur].status = "failed"
        /\ (pc' = "idle" /\ fbCount' = 0 /\ \E i \in Idx : steps'[i].status = "failed")
              => planStatus' = "failed" ]_vars

\* C2 (approved resume): for a plan [Specialist, Human, Specialist] whose
\* human step was approved and whose approval the executor has handled, with
\* no handler failing, the executor comes to rest with the plan completed and
\* the steps completed, approved, completed.
C2_ApprovedResume ==
    ( /\ pc = "idle"
      /\ Len(steps) = 3
      /\ steps[1].agent = VALUATION /\ steps[2].agent = HUMAN /\ steps[3].agent = VALUATION
      /\ AllRegistered
      /\ "begin" \in notices
      /\ fbCount = 1
      /\ fbHandled = {[step_id |-> 2, approved |-> TRUE]}
      /\ ~SomeFailed )
    => ( /\ planStatus = "completed"
         /\ Statuses = <<"completed", "approved", "completed">> )

C4_Rejection ==
    [][ /\ (pc = "idle" /\ pendingFeedback # NoFeedback /\ ~pendingFeedback.approved
                /\ pendingFeedback' = NoFeedback)
              => /\ steps'[pendingFeedback.step_id].status = "rejected"
                 /\ planStatus' = "failed"
                 /\ pc' = "idle"
        /\ \A j \in Idx : invoked'[j] > invoked[j]
              => ~\E f \in fbHandled : ~f.approved /\ f.step_id < j ]_vars

\* C5 (all-success convergence): for a plan of non-Human steps whose agents
\* all have an instance, once the loop runs it leads to the plan completed
\* with every step completed, unless a handler fails.
C5_Done == planStatus = "completed" /\ \A i \in Idx : steps[i].status = "completed"
C6_Sequencing ==
    [][ (pc = "loop" /\ pc' = "execute")
          => /\ cur' = FirstRunnable
             /\ (\A i \in Idx : steps[i].status = "planned") => cur' = 1 ]_vars

C6_Witness ==
    /\ pc = "execute" /\ cur = 2 /\ Len(steps) >= 3
    /\ steps[1].status = "completed" /\ steps[2].status = "planned"
    /\ steps[3].status = "planned"

\* C7 (re-entrant suspension): while a Human-typed step is the next runnable
\* step, entering the loop selects that step and returns, and changes neither
\* a step nor the plan status.
C7_ReentrantSuspension ==
    [][ (HumanIsNext /\ pc' # pc /\ (pc = "execute" => cur = FirstRunnable)
            /\ pc # "dispatch")
          => /\ steps' = steps
             /\ planStatus' = planStatus
             /\ pc = "idle" => pc' = "loop"
             /\ pc = "loop" => (pc' = "execute" /\ cur' = FirstRunnable)
             /\ pc = "execute" => pc' = "idle" ]_vars

C7_Witness ==
    /\ pc = "idle" /\ HumanIsNext
    /\ {"begin", "awaiting"} \subseteq notices
    /\ \E f \in fbHandled : f.approved /\ f.step_id = FirstRunnable
    /\ steps[FirstRunnable].status = "approved"

\* C10 (exactly-once dispatch): no step's handler is invoked more than once,
\* and when the executor rests after a run in which no handler failed, no
\* step was rejected and every human gate was approved and handled, every
\* non-Human step's handler has been invoked exactly once.
C10_AllSuccessRun ==
    /\ pc = "idle" /\ pendingFeedback = NoFeedback
    /\ ("begin" \in notices \/ \E f \in fbHandled : f.approved)
    /\ AllRegistered
    /\ \A i \in Idx : steps[i].status \notin {"failed", "rejected"}
    /\ \A i \in Idx : steps[i].agent = HUMAN
          => [step_id |-> i, approved |-> TRUE] \in fbHandled
C10_ExactlyOnceDispatch ==
    /\ \A i \in Idx : invoked[i] <= 1
    /\ C10_AllSuccessRun => \A i \in Idx : steps[i].agent # HUMAN => invoked[i] = 1

InProgress == {i \in Idx : steps[i].status = "in_progress"}
Terminal(i) == steps[i].status \in {"completed", "failed", "rejected"}

PlanTerminal == planStatus \in {"completed", "failed"}
\* the handler of step j is invoked in this step
Dispatched(j) == invoked'[j] > invoked[j]

\* C12 (terminal step statuses are absorbing): once a step is completed,
\* failed or rejected, no step of the executor, of a handler or of the human
\* feedback changes its status.
C12_TerminalStepAbsorbing ==
    [][ \A i \in Idx : Terminal(i) => steps'[i].status = steps[i].status ]_vars

\* C13 (terminal plans are immutable): once the plan is completed or failed,
\* its status never changes, and no step of the executor (the loop, a handler
\* it dispatches, its handling of human feedback) changes any of its steps.
C13_TerminalPlanImmutable ==
    [][ PlanTerminal
          => /\ planStatus' = planStatus
             /\ fbCount' = fbCount => steps' = steps ]_vars

\* C14 (no dispatch on a terminal plan): no handler is invoked for a step
\* while the plan is completed or failed.
C14_NoDispatchOnTerminalPlan ==
    [][ \A j \in Idx : Dispatched(j) => ~PlanTerminal ]_vars

\* C15 (ordering guarantee): when the handler of a step is invoked, every
\* earlier step is completed, failed or rejected, and no later step's handler
\* has been invoked before.
C15_OrderedDispatch ==
    [][ \A j \in Idx : Dispatched(j)
          => /\ \A i \in 1..(j - 1) : Terminal(i)
             /\ \A k \in Idx : k > j => invoked[k] = 0 ]_vars

\* C16 (no silent halt): when the loop returns from a selected step that is
\* not Human-typed, that step is failed and carries a recorded error,
\* also when no agent instance is found for the step's agent type.
C16_NoSilentHalt ==
    [][ (pc = "execute" /\ pc' = "idle" /\ steps[cur].agent # HUMAN)
          => /\ steps'[cur].status = "failed"
             /\ steps'[cur].agent_reply # None ]_vars

\* the handler of the selected step fails in this step
HandlerFails == pc = "dispatch" /\ pc' # "dispatch" /\ steps'[cur].agent_reply = "error"

\* C17 (handler failures are contained): a failing handler leaves the step
\* failed with the error recorded and the executor running (nothing is
\* raised), and the plan is failed when the executor next comes to rest.
C17_FailureContained ==
    [][ /\ HandlerFails
              => /\ steps'[cur].status = "failed"
                 /\ pc' \in {"idle", "loop"}
        /\ (pc # "idle" /\ pc' = "idle" /\ fbCount' = 0
                /\ \E i \in Idx : steps'[i].status = "failed" /\ steps'[i].agent_reply = "error")
              => planStatus' = "failed" ]_vars

\* C19 (terminal plan status only at the end): the plan becomes completed
\* only when no step is planned, in_progress or failed, and becomes failed
\* only when every step is terminal or a step is failed or rejected.
C19_TerminalStatusWhenDone ==
    [][ /\ (planStatus' = "completed" /\ planStatus # "completed")
              => \A i \in Idx : steps'[i].status \notin {"planned", "in_progress", "failed"}
        /\ (planStatus' = "failed" /\ planStatus # "failed")
              => \/ \A i \in Idx : Terminal(i)'
                 \/ \E i \in Idx : steps'[i].status \in {"failed", "rejected"} ]_vars

LifecycleEdge(from, to, agent) ==
    \/ from = "planned" /\ to \in {"approved", "rejected"}
    \/ from = "planned" /\ to = "in_progress" /\ agent # HUMAN
    \/ from = "approved" /\ to = "in_progress"
    \/ from = "in_progress" /\ to \in {"completed", "failed"}

\* C24 (step lifecycle): every change of a step's status follows an edge of
\* planned -> {approved | rejected} -> in_progress -> {completed | failed},
\* or planned -> in_progress for a non-Human step.
C24_LifecycleEdges ==
    [][ \A i \in Idx : steps'[i].status # steps[i].status
          => LifecycleEdge(steps[i].status, steps'[i].status, steps[i].agent) ]_vars

\* C29 (in_progress is stored before the handler runs): a step reaches its
\* handler only through _execute_step having found an instance for its agent
\* type and stored the step as in_progress, with no handler invoked by then;
\* and a handler is invoked only for the step that was handed over this way.
C29_PersistBeforeInvoke ==
    [][ /\ (pc' = "dispatch" /\ pc # "dispatch")
              => /\ pc = "execute" /\ cur' = cur
                 /\ steps[cur].agent # HUMAN
                 /\ steps[cur].agent \in agent_instances
                 /\ steps'[cur].status = "in_progress"
                 /\ invoked' = invoked
        /\ \A j \in Idx : Dispatched(j)
              => /\ pc = "dispatch" /\ cur = j
                 /\ steps[j].agent \in agent_instances
                 /\ invoked'[j] = invoked[j] + 1 ]_vars

\* the handler of the first step has been invoked once and has completed it,
\* and the loop has been entered again
C29_Witness ==
    /\ pc = "loop" /\ cur = 1 /\ depth = 2
    /\ invoked[1] = 1 /\ steps[1].status = "completed"
    /\ steps[1].agent \in agent_instances

\* C30 (handlers do not write step status): the invocation of a handler
\* leaves the status of every step as it was.
C30_HandlerLeavesStatus ==
    [][ (\E j \in Idx : Dispatched(j))
          => \A i \in Idx : steps'[i].status = steps[i].status ]_vars

\* C31 (no runnable step): when the loop runs and no step is planned or
\* approved, it stores the plan as completed, adds the completion message and
\* returns; no handler is invoked and no step changes.
C31_NoRunnableCompletes ==
    [][ (pc = "loop" /\ pc' # "loop" /\ FirstRunnable = 0)
          => /\ planStatus' = "completed"
             /\ "completed" \in notices'
             /\ pc' = "idle"
             /\ invoked' = invoked
             /\ steps' = steps ]_vars

\* the only step was rejected before the loop looked at it: the loop found
\* nothing to run and completed the plan with no handler invoked
C31_Witness ==
    /\ pc = "idle" /\ planStatus = "completed" /\ "completed" \in notices
    /\ Len(steps) = 1 /\ steps[1].status = "rejected"
    /\ invoked[1] = 0

\* the loop returns to its caller in this step
LoopStops == pc # "idle" /\ pc' = "idle"

\* C32 (loop termination): when an invocation of the loop stops, the plan is
\* completed or failed, or the loop has suspended on a Human-typed step.
C32_StopsInTerminalOrSuspended ==
    [][ LoopStops
          => \/ planStatus' \in {"completed", "failed"}
             \/ pc = "execute" /\ steps[cur].agent = HUMAN /\ "awaiting" \in notices' ]_vars

\* C33 (bounded nesting): executing a step adds no activation of the loop:
\* the number of nested, not yet returned activations does not grow with the
\* steps executed.
C33_NoActivationPerStep ==
    [][ (\E j \in Idx : Dispatched(j)) => depth' <= depth ]_vars

\* ------------------------------------------------------------------------
\* Properties of the AgentFactory
\* ------------------------------------------------------------------------
SameKey(c1, c2) == callArgs[c1] = callArgs[c2] /\ callArgs[c1] # NoArgs

\* C8 (single-flight registry): two calls of create_agent for the same
\* (session_id, agent_type) never both run the factory, and when both have
\* returned they hold the same instance.
C8_SingleFlight ==
    \A c1, c2 \in Callers :
        (c1 # c2 /\ SameKey(c1, c2)) =>
            /\ ~(callPc[c1] = "creating" /\ callPc[c2] = "creating")
            /\ (callPc[c1] = "returned" /\ callPc[c2] = "returned")
                  => callAgent[c1] = callAgent[c2]

\* caller c's call of agent_class.create fails in this step
FactoryFails(c) == callPc[c] = "creating" /\ callPc'[c] = "raised"
KeyCached(args) == Cached(args.agent_type, args.session_id)
\* invocations of agent_class.create for the key of a call
FactoryRuns(args) == factoryCalls[<<args.session_id, args.agent_type>>]

\* C20 (a registry failure is not cached): when agent_class.create fails, the
\* caller gets the error and no instance and the cache holds no entry for the
\* key of the call; and the caller's next call for that key runs
\* agent_class.create again.
C20_FailureLeavesNoEntry ==
    [][ \A c \in Callers :
          /\ FactoryFails(c)
                => /\ callAgent'[c] = 0
                   /\ ~KeyCached(callArgs[c])'
          /\ (callPc[c] = "raised" /\ callPc'[c] # "raised" /\ callArgs'[c] = callArgs[c]
                 /\ callArgs[c].agent_type \in _agent_classes)
                => /\ callPc'[c] = "creating"
                   /\ FactoryRuns(callArgs[c])' = FactoryRuns(callArgs[c]) + 1 ]_vars

\* caller c enters create_agent in this step
Enters(c) ==
    /\ callCount' = callCount + 1
    /\ <<callPc[c], callArgs[c], callAgent[c]>> # <<callPc'[c], callArgs'[c], callAgent'[c]>>
CachedKeys == {k \in Sessions \X RequestedTypes : Cached(k[2], k[1])}

Entry(k) == agent_cache[k[1]][k[2]]
\* caller c's call returns in this step
Returns(c) == callPc[c] # "returned" /\ callPc'[c] = "returned"

\* C36 (session isolation of the handler cache): what a call of create_agent
\* returns is a new instance or the cache entry of its own (session, agent
\* type); an instance held for one session is neither held by a call for
\* another session nor cached under another session, also for the same
\* agent type; and no step removes a cache entry or changes the entry of a
\* key other than the key of the call that returns in it.
C36_SessionIsolation ==
    [][ /\ \A c \in Callers :
             Returns(c)
             => \/ callAgent'[c] = created' /\ created' = created + 1
                \/ /\ KeyCached(callArgs'[c])
                   /\ callAgent'[c] = Entry(<<callArgs'[c].session_id, callArgs'[c].agent_type>>)
        /\ \A c1, c2 \in Callers :
             ( /\ callPc'[c1] = "returned" /\ callPc'[c2] = "returned"
               /\ callArgs'[c1].session_id # callArgs'[c2].session_id )
             => callAgent'[c1] # callAgent'[c2]
        /\ \A c \in Callers, k \in CachedKeys' :
             (callPc'[c] = "returned" /\ k[1] # callArgs'[c].session_id)
             => Entry(k)' # callAgent'[c]
        /\ \A k \in CachedKeys :
             /\ k \in CachedKeys'
             /\ Entry(k)' # Entry(k)
                => \E c \in Callers :
                     /\ callPc[c] = "creating" /\ Returns(c)
                     /\ callArgs[c] = [agent_type |-> k[2], session_id |-> k[1]] ]_vars

\* two calls for the same agent type and different sessions have returned
\* different instances, each cached under its own session
C36_Witness ==
    \E c1, c2 \in Callers :
        /\ callPc[c1] = "returned" /\ callPc[c2] = "returned"
        /\ callArgs[c1].agent_type = callArgs[c2].agent_type
        /\ callArgs[c1].session_id # callArgs[c2].session_id
        /\ KeyCached(callArgs[c1]) /\ KeyCached(callArgs[c2])
        /\ callAgent[c1] = Entry(<<callArgs[c1].session_id, callArgs[c1].agent_type>>)
        /\ callAgent[c2] = Entry(<<callArgs[c2].session_id, callArgs[c2].agent_type>>)
        /\ callAgent[c1] # callAgent[c2]

\* C37 (unregistered agent type): a call of create_agent for an agent type
\* with no registered class, such as the Human type, raises at once: no
\* agent_class.create is invoked, no instance is constructed or returned,
\* and the cache stays as it was.
C37_UnregisteredTypeRaises ==
    [][ \A c \in Callers :
          (Enters(c) /\ callArgs'[c].agent_type \notin _agent_classes)
          => /\ callPc'[c] = "raised"
             /\ callAgent'[c] = 0
             /\ factoryCalls' = factoryCalls
             /\ created' = created
             /\ agent_cache' = agent_cache ]_vars

\* a call for the Human type has raised while the cache holds an entry and
\* no call is inside agent_class.create
C37_Witness ==
    \E c \in Callers :
        /\ callPc[c] = "raised" /\ callArgs[c].agent_type = HUMAN /\ callAgent[c] = 0
        /\ CachedKeys # {}
        /\ \A k \in CachedKeys : k[2] # HUMAN
        /\ \A c2 \in Callers : callPc[c2] # "creating"

\* ------------------------------------------------------------------------
\* Properties of the WorkflowStateRepository
\* ------------------------------------------------------------------------
\* caller o starts an operation in this step
Started(o) ==
    /\ opCount' = opCount + 1
    /\ <<opPc[o], opArgs[o], opErr[o], opPlan[o]>> # <<opPc'[o], opArgs'[o], opErr'[o], opPlan'[o]>>

StepIdsOf(plan) == {plan.steps[i].id : i \in 1..Len(plan.steps)}

\* C9 (repository integrity): update_step with a step id that is not in the
\* stored plan raises the step-not-found error, holds no pending write, and
\* leaves the stored documents as they were.
C9_UpdateStepUnknownId ==
    [][ \A o \in Ops :
          ( /\ Started(o)
            /\ opArgs'[o].op = "update_step"
            /\ get_plan(opArgs'[o].plan_id, opArgs'[o].tenant_id) # NoDoc
            /\ opArgs'[o].step.id \notin
                  StepIdsOf(get_plan(opArgs'[o].plan_id, opArgs'[o].tenant_id)) )
          => ( /\ opPc'[o] = "raised"
               /\ opErr'[o] = StepNotFound
               /\ store' = store ) ]_vars

C9_Witness ==
    \E o \in Ops :
        /\ opPc[o] = "raised" /\ opErr[o] = StepNotFound
        /\ opArgs[o].op = "update_step" /\ opArgs[o].plan_id = "p1" /\ opArgs[o].step.id = "c"
        /\ store[<<"t1", "p1">>].updated_at > 0

\* C18 (create_plan on an existing id): create_plan with the id of a stored
\* plan raises and leaves the stored documents as they were.
C18_CreatePlanAlreadyExists ==
    [][ \A o \in Ops :
          ( /\ Started(o)
            /\ opArgs'[o].op = "create_plan"
            /\ get_plan(opArgs'[o].plan_id, opArgs'[o].tenant_id) # NoDoc )
          => ( /\ opPc'[o] = "raised"
               /\ opErr'[o] # None
               /\ store' = store ) ]_vars

\* C22 (updated_at is monotonic): the updated_at of a stored plan never
\* decreases, whatever the interleaving of update_step and update_plan_status.
C22_UpdatedAtMonotonic ==
    [][ \A k \in Tenants \X PlanIds :
          ( /\ store[k] # NoDoc /\ store'[k] # NoDoc
            /\ \A o \in Ops : opArgs[o].op \in {None, "update_step", "update_plan_status"} )
              => store'[k].updated_at >= store[k].updated_at ]_vars

\* the plan an operation names is not in the store when the operation starts
TargetMissing(o) == get_plan(opArgs'[o].plan_id, opArgs'[o].tenant_id) = NoDoc

\* C25 (operations on a missing plan): update_step and update_plan_status on
\* a (tenant_id, plan id) that is not stored raise the plan-not-found error,
\* hold no pending write and leave the store as it was; get_plan on such a
\* key returns None without an error.
C25_MissingPlan ==
    [][ \A o \in Ops :
          (Started(o) /\ TargetMissing(o))
          => /\ opArgs'[o].op \in {"update_step", "update_plan_status"}
                   => /\ opPc'[o] = "raised"
                      /\ opErr'[o] = PlanNotFound
                      /\ store' = store
             /\ opArgs'[o].op = "get_plan"
                   => /\ opPc'[o] = "done"
                      /\ opErr'[o] = None
                      /\ opPlan'[o] = NoDoc
                      /\ store' = store ]_vars

\* one caller's update of the missing plan p3 raised, the other's get_plan of
\* p3 returned None, and p3 is still not stored
C25_Witness ==
    \E o1, o2 \in Ops :
        /\ opArgs[o1].op \in {"update_step", "update_plan_status"} /\ opArgs[o1].plan_id = "p3"
        /\ opPc[o1] = "raised" /\ opErr[o1] = PlanNotFound
        /\ opArgs[o2].op = "get_plan" /\ opArgs[o2].plan_id = "p3"
        /\ opPc[o2] = "done" /\ opPlan[o2] = NoDoc /\ opErr[o2] = None
        /\ store[<<"t1", "p3">>] = NoDoc

IsMutation(o) == opArgs[o].op \in {"update_step", "update_plan_status"}
OpKey(o) == <<opArgs[o].tenant_id, opArgs[o].plan_id>>
\* the document carries the change that caller o's mutation makes
Reflects(doc, o) ==
    /\ doc # NoDoc
    /\ IF opArgs[o].op = "update_plan_status"
       THEN doc.status = opArgs[o].new_status
       ELSE \E i \in 1..Len(doc.steps) : doc.steps[i] = opArgs[o].step
\* caller o's replace_item lands in this step
Writes(o) == opPc[o] = "write" /\ opPc'[o] = "done"

\* C26 (lost update): when the write of a mutation lands whose in-memory plan
\* was read before another, already completed mutation of the same plan was
\* written, the stored document afterwards carries the later writer's change
\* and no longer the earlier writer's, and neither call reports an error.
C26_LostUpdate ==
    [][ \A o1, o2 \in Ops :
          ( /\ o1 # o2
            /\ Writes(o2)
            /\ IsMutation(o1) /\ opPc[o1] = "done" /\ OpKey(o1) = OpKey(o2)
            /\ Reflects(store[OpKey(o1)], o1)
            /\ ~Reflects(opPlan[o2], o1) )
          => ( /\ store'[OpKey(o2)] = opPlan[o2]
               /\ Reflects(store'[OpKey(o2)], o2)
               /\ ~Reflects(store'[OpKey(o1)], o1)
               /\ opPc'[o1] = "done" /\ opErr'[o1] = None /\ opErr'[o2] = None ) ]_vars

\* two update_step calls on steps a and b of p1 have both completed without
\* error, and the stored plan carries only the change to b
C26_Witness ==
    \E o1, o2 \in Ops :
        /\ opArgs[o1].op = "update_step" /\ opArgs[o1].plan_id = "p1" /\ opArgs[o1].step.id = "a"
        /\ opArgs[o2].op = "update_step" /\ opArgs[o2].plan_id = "p1" /\ opArgs[o2].step.id = "b"
        /\ opPc[o1] = "done" /\ opPc[o2] = "done"
        /\ opErr[o1] = None /\ opErr[o2] = None
        /\ store[<<"t1", "p1">>].steps[1].status = "pending"
        /\ store[<<"t1", "p1">>].steps[2].status = "completed"

\* caller o's operation op has read its plan in this step and goes on to write
Prepares(o, op) == Started(o) /\ opArgs'[o].op = op /\ opPc'[o] = "write"
\* the write of caller o replaces the document of its plan and nothing else
WholeDocumentWrite(o) ==
    store' = [store EXCEPT ![<<opPlan[o].tenant_id, opPlan[o].id>>] = opPlan[o]]
SameOtherFields(old, new) ==
    /\ new.id = old.id /\ new.tenant_id = old.tenant_id /\ new.created_at = old.created_at

\* C27 (frame of update_step): the document a successful update_step writes
\* is the plan it read with the step of the matching id replaced at its
\* position: as many steps in the same order, every other step and every
\* plan field but updated_at as read; the write stores that document.
C27_UpdateStepFrame ==
    [][ \A o \in Ops :
          /\ Prepares(o, "update_step")
                => LET old == get_plan(opArgs'[o].plan_id, opArgs'[o].tenant_id)
                       new == opPlan'[o]
                       st == opArgs'[o].step
                   IN /\ Len(new.steps) = Len(old.steps)
                      /\ \A j \in 1..Len(old.steps) :
                            /\ new.steps[j].id = old.steps[j].id
                            /\ new.steps[j] = IF old.steps[j].id = st.id THEN st ELSE old.steps[j]
                      /\ SameOtherFields(old, new)
                      /\ new.status = old.status
                      /\ store' = store
          /\ (Writes(o) /\ opArgs[o].op = "update_step") => WholeDocumentWrite(o) ]_vars

\* update_step of step a of p1 has completed: a is completed at the first
\* position, b follows as it was
C27_Witness ==
    \E o \in Ops :
        /\ opArgs[o].op = "update_step" /\ opArgs[o].plan_id = "p1" /\ opArgs[o].step.id = "a"
        /\ opPc[o] = "done"
        /\ store[<<"t1", "p1">>].steps = <<[id |-> "a", status |-> "completed"],
                                           [id |-> "b", status |-> "pending"]>>
        /\ store[<<"t1", "p1">>].status = "in_progress"
        /\ store[<<"t1", "p1">>].updated_at = 1

\* C28 (frame of update_plan_status): the document a successful
\* update_plan_status writes is the plan it read with only status and
\* updated_at changed; the steps are as read; the write stores that document.
C28_UpdatePlanStatusFrame ==
    [][ \A o \in Ops :
          /\ Prepares(o, "update_plan_status")
                => LET old == get_plan(opArgs'[o].plan_id, opArgs'[o].tenant_id)
                       new == opPlan'[o]
                   IN /\ new.steps = old.steps
                      /\ SameOtherFields(old, new)
                      /\ new.status = opArgs'[o].new_status
                      /\ store' = store
          /\ (Writes(o) /\ opArgs[o].op = "update_plan_status") => WholeDocumentWrite(o) ]_vars

\* update_plan_status(p1, failed) has completed: the plan is failed, its steps
\* a and b are as they were
C28_Witness ==
    \E o \in Ops :
        /\ opArgs[o].op = "update_plan_status" /\ opArgs[o].plan_id = "p1"
        /\ opArgs[o].new_status = "failed" /\ opPc[o] = "done"
        /\ store[<<"t1", "p1">>].status = "failed"
        /\ store[<<"t1", "p1">>].steps = <<[id |-> "a", status |-> "pending"],
                                           [id |-> "b", status |-> "pending"]>>
        /\ store[<<"t1", "p1">>].updated_at = 1
StepFails == plPc = "steps" /\ plPc' = "raised"

\* C34: handle_input_task persists the Plan before any Step and the Steps in
\* plan order, each with status planned; when persisting the k-th step
\* fails the error propagates and the store keeps the Plan together with
\* exactly the first k-1 steps
C34_PersistenceOrder ==
    [][ /\ (memSteps' # memSteps => memPlan /\ memPlan')
        /\ Len(memSteps') <= Len(parsed_result')
        /\ \A i \in 1..Len(memSteps') :
              /\ memSteps'[i].agent = parsed_result'[i]
              /\ memSteps'[i].status = "planned"
        /\ (StepFails => /\ memPlan'
                         /\ memSteps' = memSteps
                         /\ Len(memSteps') = Len(plSteps)
                         /\ Len(memSteps') < Len(parsed_result')) ]_vars

\* the second of three steps failed: the Plan and the first step are stored
C34_Witness ==
    /\ plPc = "raised"
    /\ memPlan
    /\ Len(parsed_result) = 3
    /\ Len(memSteps) = 1
    /\ memSteps[1].status = "planned"

\* ------------------------------------------------------------------------
\* Properties of the AgentChatService
\* ------------------------------------------------------------------------
\* C38: after any sequence of create_thread, delete_thread and switch calls,
\* failing ones included, current is None or the name of a thread that is
\* present in threads.
C38_CurrentIsAThread == current = None \/ HasThread(current)
====
